---- MODULE Spec2Model ----
(***************************************************************************)
(* Pure-pursuit curvature core of waypoint_follower                        *)
(* (src/waypoint_follower/nodes/pure_pursuit/pure_pursuit.cpp).            *)
(*                                                                         *)
(* Numbers.  A C++ double that holds a length or a coordinate is modelled  *)
(* as a fixed-point number: the integer v stands for the real v / Scale.   *)
(* Mul, Div and Sqrt round towards minus infinity; the environment only    *)
(* supplies inputs on which every operation the interpolator performs is   *)
(* exact (Representable), so that on the modelled inputs the fixed-point   *)
(* result is the real-number result of the C++ expression.  The curvature  *)
(* is a quotient that is not on the grid and is kept as an exact rational. *)
(***************************************************************************)
EXTENDS Integers, Sequences, FiniteSets, TLC

VARIABLES
    current_waypoints_,            \* std::vector of waypoint positions
    current_pose_,                 \* [position, yaw]
    lookahead_distance_,
    minimum_lookahead_distance_,
    is_linear_interpolation_,
    next_waypoint_number_,
    next_target_position_,
    output_kappa,                  \* the caller's double that canGetCurvature writes through
    last_call                      \* the call that produced this state and what it returned

vars == << current_waypoints_, current_pose_, lookahead_distance_,
           minimum_lookahead_distance_, is_linear_interpolation_,
           next_waypoint_number_, next_target_position_, output_kappa, last_call >>

---------------------------------------------------------------------------
(* Bounds of the model *)

MaxLen == 3

---------------------------------------------------------------------------
(* Fixed-point arithmetic standing for double arithmetic *)

Scale == 100

ERROR_DEN == 100000

Abs(v) == IF v < 0 THEN -v ELSE v

Mul(p, q) == (p * q) \div Scale

Div(p, q) == (p * Scale) \div q

RECURSIVE ISqrtBetween(_, _, _)
ISqrtBetween(n, lo, hi) ==
    \* largest r in lo..hi with r*r <= n, given lo*lo <= n < (hi+1)*(hi+1)
    IF lo = hi THEN lo
    ELSE LET mid == (lo + hi + 1) \div 2
         IN  IF mid * mid <= n THEN ISqrtBetween(n, mid, hi)
                               ELSE ISqrtBetween(n, lo, mid - 1)

ISqrt(n) == ISqrtBetween(n, 0, 40000)

Sqrt(v) == ISqrt(v * Scale)

\* fabs(v) < ERROR, ERROR = 10^-5
LessThanERROR(v) == Abs(v) < Scale /\ Abs(v) * ERROR_DEN < Scale

RECURSIVE GCD(_, _)
GCD(m, n) == IF n = 0 THEN m ELSE GCD(n, m % n)

\* The real num/den + kmin * KAPPA_MIN_, in lowest terms.
Ratio(num, den) ==
    LET g == GCD(Abs(num), den)
    IN  [num |-> num \div g, den |-> den \div g, kmin |-> 0]

KAPPA_MIN_ == [num |-> 0, den |-> 1, kmin |-> 1]

Neg(k) == [num |-> -k.num, den |-> k.den, kmin |-> -k.kmin]

Zero == [num |-> 0, den |-> 1, kmin |-> 0]

---------------------------------------------------------------------------
(* Geometry helpers of libwaypoint_follower and tf *)

Point(px, py, pz) == [x |-> px * Scale, y |-> py * Scale, z |-> pz * Scale]

\* sqrt(dx^2 + dy^2): the distance in the horizontal plane
getPlaneDistance(p, q) ==
    Sqrt(Mul(p.x - q.x, p.x - q.x) + Mul(p.y - q.y, p.y - q.y))

\* a*x + b*y + c = 0 through start and end; flag FALSE when they coincide
getLinearEquation(start, end) ==
    IF start.x = end.x /\ start.y = end.y
    THEN [flag |-> FALSE, a |-> 0, b |-> 0, c |-> 0]
    ELSE [flag |-> TRUE,
          a |-> end.y - start.y,
          b |-> (-1) * (end.x - start.x),
          c |-> Mul((-1) * (end.y - start.y), start.x)
                + Mul(end.x - start.x, start.y)]

LineValue(a, b, c, p) == Mul(a, p.x) + Mul(b, p.y) + c

\* |a*x0 + b*y0 + c| / sqrt(a^2 + b^2)
getDistanceBetweenLineAndPoint(p, a, b, c) ==
    Div(Abs(LineValue(a, b, c, p)), Sqrt(Mul(a, a) + Mul(b, b)))

\* tf::Vector3::normalize (z = 0)
normalize(v) ==
    LET len == Sqrt(Mul(v.x, v.x) + Mul(v.y, v.y))
    IN  [x |-> Div(v.x, len), y |-> Div(v.y, len)]

Cos(deg) == CASE deg = 0 -> 1 [] deg = 90 -> 0 [] deg = 180 -> -1
              [] deg = 270 -> 0 [] deg = -90 -> 0
Sin(deg) == CASE deg = 0 -> 0 [] deg = 90 -> 1 [] deg = 180 -> 0
              [] deg = 270 -> -1 [] deg = -90 -> -1

\* rotation about the vertical axis, then normalize
rotateUnitVector(u, deg) ==
    normalize([x |-> Cos(deg) * u.x - Sin(deg) * u.y,
               y |-> Sin(deg) * u.x + Cos(deg) * u.y])

\* the target in the frame of the pose: R(-yaw) * (target - position)
calcRelativeCoordinate(target, pose) ==
    LET dx == target.x - pose.position.x
        dy == target.y - pose.position.y
    IN  [x |-> Cos(pose.yaw) * dx + Sin(pose.yaw) * dy,
         y |-> Cos(pose.yaw) * dy - Sin(pose.yaw) * dx,
         z |-> target.z - pose.position.z]

\* std::vector::at with an int index: throws std::out_of_range outside 0..size-1
InRange(wps, i) == 0 <= i /\ i < Len(wps)
at(wps, i) == wps[i + 1]

---------------------------------------------------------------------------
(* The PurePursuit object: its member variables as one record *)

Self == [current_waypoints_          |-> current_waypoints_,
         current_pose_               |-> current_pose_,
         lookahead_distance_         |-> lookahead_distance_,
         minimum_lookahead_distance_ |-> minimum_lookahead_distance_,
         is_linear_interpolation_    |-> is_linear_interpolation_,
         next_waypoint_number_       |-> next_waypoint_number_,
         next_target_position_       |-> next_target_position_]

\* calcCurvature with the sign test of line 40 written numerator >= 0.0
calcCurvature_SignGe(self, target) ==
    LET pt          == calcRelativeCoordinate(target, self.current_pose_)
        denominator == pt.x * pt.x
        numerator   == 2 * pt.y
    IN  IF denominator # 0
        THEN Ratio(numerator * Scale, denominator)
        ELSE IF numerator >= 0 THEN KAPPA_MIN_ ELSE Neg(KAPPA_MIN_)

\* double PurePursuit::calcCurvature(const geometry_msgs::Point& target) const
calcCurvature(self, target) ==
    LET pt          == calcRelativeCoordinate(target, self.current_pose_)
        denominator == pt.x * pt.x          \* in units of 1/Scale^2
        numerator   == 2 * pt.y             \* in units of 1/Scale
    IN  IF denominator # 0
        THEN Ratio(numerator * Scale, denominator)
        ELSE IF numerator > 0 THEN KAPPA_MIN_ ELSE Neg(KAPPA_MIN_)

\* the two-intersection branch with the half chord taken as radius - d
TwoIntersections_Chord(self, h, unit_v, d, start, end, next_target) ==
    LET search_radius == self.lookahead_distance_
        s        == search_radius - d
        target1  == [x |-> h.x + Mul(s, unit_v.x),
                     y |-> h.y + Mul(s, unit_v.y),
                     z |-> self.current_pose_.position.z]
        target2  == [x |-> h.x - Mul(s, unit_v.x),
                     y |-> h.y - Mul(s, unit_v.y),
                     z |-> self.current_pose_.position.z]
        interval == getPlaneDistance(end, start)
    IN  IF getPlaneDistance(target1, end) < interval
        THEN [ret |-> TRUE, next_target |-> target1, exit |-> "target1"]
        ELSE IF getPlaneDistance(target2, end) < interval
        THEN [ret |-> TRUE, next_target |-> target2, exit |-> "target2"]
        ELSE [ret |-> FALSE, next_target |-> next_target, exit |-> "no_intersection"]

\* the two-intersection branch assigning *next_target before the segment test
TwoIntersections_WritesOnFailure(self, h, unit_v, d, start, end, next_target) ==
    LET search_radius == self.lookahead_distance_
        s        == Sqrt(Mul(search_radius, search_radius) - Mul(d, d))
        target1  == [x |-> h.x + Mul(s, unit_v.x),
                     y |-> h.y + Mul(s, unit_v.y),
                     z |-> self.current_pose_.position.z]
        target2  == [x |-> h.x - Mul(s, unit_v.x),
                     y |-> h.y - Mul(s, unit_v.y),
                     z |-> self.current_pose_.position.z]
        interval == getPlaneDistance(end, start)
    IN  IF getPlaneDistance(target1, end) < interval
        THEN [ret |-> TRUE, next_target |-> target1, exit |-> "target1"]
        ELSE IF getPlaneDistance(target2, end) < interval
        THEN [ret |-> TRUE, next_target |-> target2, exit |-> "target2"]
        ELSE [ret |-> FALSE, next_target |-> target2, exit |-> "no_intersection"]

\* the two-intersection branch of interpolateNextTarget (lines 133-171)
TwoIntersections(self, h, unit_v, d, start, end, next_target) ==
    LET search_radius == self.lookahead_distance_
        s        == Sqrt(Mul(search_radius, search_radius) - Mul(d, d))
        target1  == [x |-> h.x + Mul(s, unit_v.x),
                     y |-> h.y + Mul(s, unit_v.y),
                     z |-> self.current_pose_.position.z]
        target2  == [x |-> h.x - Mul(s, unit_v.x),
                     y |-> h.y - Mul(s, unit_v.y),
                     z |-> self.current_pose_.position.z]
        interval == getPlaneDistance(end, start)
    IN  IF getPlaneDistance(target1, end) < interval
        THEN [ret |-> TRUE, next_target |-> target1, exit |-> "target1"]
        ELSE IF getPlaneDistance(target2, end) < interval
        THEN [ret |-> TRUE, next_target |-> target2, exit |-> "target2"]
        ELSE [ret |-> FALSE, next_target |-> next_target, exit |-> "no_intersection"]

\* lines 86-132 of interpolateNextTarget: the foot of the perpendicular
FootAndIntersect(self, a, b, c, d, start, end, next_target) ==
    LET pos     == self.current_pose_.position
        unit_v  == normalize([x |-> end.x - start.x, y |-> end.y - start.y])
        unit_w1 == rotateUnitVector(unit_v, 90)
        unit_w2 == rotateUnitVector(unit_v, -90)
        h1 == [x |-> pos.x + Mul(d, unit_w1.x), y |-> pos.y + Mul(d, unit_w1.y), z |-> pos.z]
        h2 == [x |-> pos.x + Mul(d, unit_w2.x), y |-> pos.y + Mul(d, unit_w2.y), z |-> pos.z]
    IN  IF LessThanERROR(LineValue(a, b, c, h1))
        THEN IF d = self.lookahead_distance_
             THEN [ret |-> TRUE, next_target |-> h1, exit |-> "tangent"]
             ELSE TwoIntersections(self, h1, unit_v, d, start, end, next_target)
        ELSE IF LessThanERROR(LineValue(a, b, c, h2))
        THEN IF d = self.lookahead_distance_
             THEN [ret |-> TRUE, next_target |-> h2, exit |-> "tangent"]
             ELSE TwoIntersections(self, h2, unit_v, d, start, end, next_target)
        ELSE [ret |-> FALSE, next_target |-> next_target, exit |-> "foot_mismatch"]

\* bool PurePursuit::interpolateNextTarget(int next_waypoint, geometry_msgs::Point *next_target) const
\* next_target is the value *next_target holds on entry; it is returned unchanged
\* by every exit that does not assign it.  exit names the return statement taken;
\* "out_of_range" is the exception std::vector::at throws (no value is returned).
interpolateNextTarget(self, next_waypoint, next_target) ==
    LET wps       == self.current_waypoints_
        path_size == Len(wps)
    IN  IF next_waypoint = path_size - 1
        THEN IF InRange(wps, next_waypoint)
             THEN [ret |-> TRUE, next_target |-> at(wps, next_waypoint), exit |-> "last"]
             ELSE [ret |-> FALSE, next_target |-> next_target, exit |-> "out_of_range"]
        ELSE IF ~InRange(wps, next_waypoint) \/ ~InRange(wps, next_waypoint - 1)
        THEN [ret |-> FALSE, next_target |-> next_target, exit |-> "out_of_range"]
        ELSE
        LET end   == at(wps, next_waypoint)
            start == at(wps, next_waypoint - 1)
            eq    == getLinearEquation(start, end)
        IN  IF ~eq.flag
            THEN [ret |-> FALSE, next_target |-> next_target, exit |-> "degenerate"]
            ELSE
            LET d == getDistanceBetweenLineAndPoint(self.current_pose_.position, eq.a, eq.b, eq.c)
            IN  IF d > self.lookahead_distance_
                THEN [ret |-> FALSE, next_target |-> next_target, exit |-> "out_of_reach"]
                ELSE FootAndIntersect(self, eq.a, eq.b, eq.c, d, start, end, next_target)

\* the search loop with the test of line 197 written >=
RECURSIVE SearchFrom_Ge(_, _)
SearchFrom_Ge(self, i) ==
    LET wps == self.current_waypoints_
    IN  IF ~(i < Len(wps)) THEN -1
        ELSE IF i = Len(wps) - 1 THEN i
        ELSE IF getPlaneDistance(at(wps, i), self.current_pose_.position) >= self.lookahead_distance_
        THEN i
        ELSE SearchFrom_Ge(self, i + 1)

\* the for loop of getNextWaypoint from index i on (lines 186-206)
RECURSIVE SearchFrom(_, _)
SearchFrom(self, i) ==
    LET wps == self.current_waypoints_
    IN  IF ~(i < Len(wps)) THEN -1
        ELSE IF i = Len(wps) - 1 THEN i
        ELSE IF getPlaneDistance(at(wps, i), self.current_pose_.position) > self.lookahead_distance_
        THEN i
        ELSE SearchFrom(self, i + 1)

\* getNextWaypoint resuming the scan at the index the previous call left
getNextWaypoint_Resume(self) ==
    IF Len(self.current_waypoints_) = 0
    THEN [self EXCEPT !.next_waypoint_number_ = -1]
    ELSE [self EXCEPT !.next_waypoint_number_ =
              SearchFrom(self, IF InRange(self.current_waypoints_, self.next_waypoint_number_)
                               THEN self.next_waypoint_number_ ELSE 0)]

\* getNextWaypoint with the loop of line 186 starting at i = 1
getNextWaypoint_FromOne(self) ==
    IF Len(self.current_waypoints_) = 0
    THEN [self EXCEPT !.next_waypoint_number_ = -1]
    ELSE [self EXCEPT !.next_waypoint_number_ = SearchFrom(self, 1)]

\* void PurePursuit::getNextWaypoint(): the object after the call
getNextWaypoint(self) ==
    IF Len(self.current_waypoints_) = 0
    THEN [self EXCEPT !.next_waypoint_number_ = -1]
    ELSE [self EXCEPT !.next_waypoint_number_ = SearchFrom(self, 0)]

\* the validity scan with the test of line 222 written >=
is_valid_curve_Ge(self) ==
    \E k \in 1..Len(self.current_waypoints_) :
        getPlaneDistance(self.current_waypoints_[k], self.current_pose_.position)
            >= self.minimum_lookahead_distance_

\* lines 219-227 of canGetCurvature
is_valid_curve(self) ==
    \E k \in 1..Len(self.current_waypoints_) :
        getPlaneDistance(self.current_waypoints_[k], self.current_pose_.position)
            > self.minimum_lookahead_distance_

\* the target choice without the test next_waypoint_number_ == 0 of line 233
SelectTarget_NoFirstTest(s1, kappa) ==
    IF ~s1.is_linear_interpolation_
       \/ s1.next_waypoint_number_ = Len(s1.current_waypoints_) - 1
    THEN LET s2 == [s1 EXCEPT !.next_target_position_ =
                                  at(s1.current_waypoints_, s1.next_waypoint_number_)]
         IN  [self |-> s2, output_kappa |-> calcCurvature(s2, s2.next_target_position_),
              ret |-> TRUE, exit |-> "raw"]
    ELSE LET r  == interpolateNextTarget(s1, s1.next_waypoint_number_, s1.next_target_position_)
             s2 == [s1 EXCEPT !.next_target_position_ = r.next_target]
         IN  IF ~r.ret
             THEN [self |-> s2, output_kappa |-> kappa, ret |-> FALSE, exit |-> "lost_target"]
             ELSE [self |-> s2, output_kappa |-> calcCurvature(s2, s2.next_target_position_),
                   ret |-> TRUE, exit |-> "interpolated"]

\* lines 232-253 of canGetCurvature: the raw waypoint or the interpolated
\* target, and the curvature towards it
SelectTarget(s1, kappa) ==
    IF ~s1.is_linear_interpolation_ \/ s1.next_waypoint_number_ = 0
       \/ s1.next_waypoint_number_ = Len(s1.current_waypoints_) - 1
    THEN LET s2 == [s1 EXCEPT !.next_target_position_ =
                                  at(s1.current_waypoints_, s1.next_waypoint_number_)]
         IN  [self |-> s2, output_kappa |-> calcCurvature(s2, s2.next_target_position_),
              ret |-> TRUE, exit |-> "raw"]
    ELSE LET r  == interpolateNextTarget(s1, s1.next_waypoint_number_, s1.next_target_position_)
             s2 == [s1 EXCEPT !.next_target_position_ = r.next_target]
         IN  IF ~r.ret
             THEN [self |-> s2, output_kappa |-> kappa, ret |-> FALSE, exit |-> "lost_target"]
             ELSE [self |-> s2, output_kappa |-> calcCurvature(s2, s2.next_target_position_),
                   ret |-> TRUE, exit |-> "interpolated"]

\* canGetCurvature without the test next_waypoint_number_ == -1 of line 213
canGetCurvature_NoLostTest(self, kappa) ==
    LET s1 == getNextWaypoint(self)
    IN  IF ~is_valid_curve(s1)
        THEN [self |-> s1, output_kappa |-> kappa, ret |-> FALSE, exit |-> "invalid_curve"]
        ELSE SelectTarget(s1, kappa)

\* bool PurePursuit::canGetCurvature(double *output_kappa)
\* kappa is the value *output_kappa holds on entry.
canGetCurvature(self, kappa) ==
    LET s1 == getNextWaypoint(self)
    IN  IF s1.next_waypoint_number_ = -1
        THEN [self |-> s1, output_kappa |-> kappa, ret |-> FALSE, exit |-> "lost_waypoint"]
        ELSE IF ~is_valid_curve(s1)
        THEN [self |-> s1, output_kappa |-> kappa, ret |-> FALSE, exit |-> "invalid_curve"]
        ELSE SelectTarget(s1, kappa)

---------------------------------------------------------------------------
(* The environment: what the collaborators hand to the core between ticks *)

WaypointSet == { Point(0, 0, 0), Point(5, 0, 0), Point(10, 0, 1), Point(3, 4, 1) }

Pose(px, py, pz, yaw) == [position |-> Point(px, py, pz), yaw |-> yaw]

PoseSet == { Pose(0, 0, 0, 0), Pose(0, 0, 0, 90), Pose(0, 3, 0, 0),
             Pose(0, 4, 0, 90), Pose(3, 0, 1, 0), Pose(10, 0, 0, 90) }

LookaheadSet == { 3 * Scale, 5 * Scale }

MinimumLookaheadSet == { 1 * Scale, 5 * Scale }

PathSet == UNION { [1..n -> WaypointSet] : n \in 0..MaxLen }

IsSquare(n) == ISqrt(n) * ISqrt(n) = n

\* Every fixed-point operation interpolateNextTarget performs on the segment
\* start -> end with the vehicle at pos and radius L has an exact result.
SegmentRepresentable(start, end, pos, L) ==
    LET eq == getLinearEquation(start, end)
    IN  eq.flag =>
        LET len2 == Mul(eq.a, eq.a) + Mul(eq.b, eq.b)
            len  == Sqrt(len2)
            n    == Abs(LineValue(eq.a, eq.b, eq.c, pos))
            d    == Div(n, len)
            u    == normalize([x |-> end.x - start.x, y |-> end.y - start.y])
            q    == Mul(L, L) - Mul(d, d)
            s    == Sqrt(q)
        IN  /\ IsSquare(len2 * Scale)
            /\ (n * Scale) % len = 0
            /\ ((end.x - start.x) * Scale) % len = 0
            /\ ((end.y - start.y) * Scale) % len = 0
            /\ (d * u.x) % Scale = 0
            /\ (d * u.y) % Scale = 0
            /\ d < L => /\ (d * d) % Scale = 0
                        /\ IsSquare(q * Scale)
                        /\ (s * u.x) % Scale = 0
                        /\ (s * u.y) % Scale = 0

Representable(wps, pose, L) ==
    \A k \in 1..(Len(wps) - 1) :
        SegmentRepresentable(wps[k], wps[k + 1], pose.position, L)

---------------------------------------------------------------------------
(* State machine *)

Origin == Point(0, 0, 0)

NoCall(op) == [op |-> op, ret |-> FALSE, exit |-> "", idx |-> -1, target |-> Origin]

\* A PurePursuit object as constructed, with the members the setters write
\* set from the environment's sets.
Constructed ==
    /\ next_waypoint_number_ = -1
    /\ next_target_position_ = Origin
    /\ output_kappa = Zero
    /\ last_call = NoCall("PurePursuit")

Init ==
    /\ current_waypoints_ \in PathSet
    /\ current_pose_ \in PoseSet
    /\ lookahead_distance_ \in LookaheadSet
    /\ minimum_lookahead_distance_ \in MinimumLookaheadSet
    /\ minimum_lookahead_distance_ <= lookahead_distance_
    /\ is_linear_interpolation_ \in BOOLEAN
    /\ Representable(current_waypoints_, current_pose_, lookahead_distance_)
    /\ Constructed

\* One control tick: can_get_curvature = pp_.canGetCurvature(&kappa)
Tick ==
    LET r == canGetCurvature(Self, output_kappa)
    IN  /\ next_waypoint_number_' = r.self.next_waypoint_number_
        /\ next_target_position_' = r.self.next_target_position_
        /\ output_kappa' = r.output_kappa
        /\ last_call' = [NoCall("canGetCurvature") EXCEPT !.ret = r.ret, !.exit = r.exit]
        /\ UNCHANGED << current_waypoints_, current_pose_, lookahead_distance_,
                        minimum_lookahead_distance_, is_linear_interpolation_ >>

\* getNextWaypoint() called on its own
Call_getNextWaypoint ==
    /\ next_waypoint_number_' = getNextWaypoint(Self).next_waypoint_number_
    /\ last_call' = NoCall("getNextWaypoint")
    /\ UNCHANGED << current_waypoints_, current_pose_, lookahead_distance_,
                    minimum_lookahead_distance_, is_linear_interpolation_,
                    next_target_position_, output_kappa >>

\* interpolateNextTarget(k, &t) called on its own, t a default-constructed Point
Call_interpolateNextTarget(k) ==
    LET r == interpolateNextTarget(Self, k, Origin)
    IN  /\ last_call' = [NoCall("interpolateNextTarget") EXCEPT
                            !.ret = r.ret, !.exit = r.exit, !.idx = k,
                            !.target = r.next_target]
        /\ UNCHANGED << current_waypoints_, current_pose_, lookahead_distance_,
                        minimum_lookahead_distance_, is_linear_interpolation_,
                        next_waypoint_number_, next_target_position_, output_kappa >>

---------------------------------------------------------------------------
(* Calls on one object whose inputs were set once *)

Next ==
    \/ Tick
    \/ Call_getNextWaypoint
    \/ \E k \in 0..(Len(current_waypoints_) - 1) : Call_interpolateNextTarget(k)

Spec == Init /\ [][Next]_vars

---------------------------------------------------------------------------
(* The control loop: the collaborators replace path, pose and configuration
   between ticks (setters of pure_pursuit.h), and every tick calls
   canGetCurvature on the same long-lived object. *)

LoopWaypointSet == { Point(0, 0, 0), Point(5, 0, 0) }

LoopPathSet == { << >> } \cup [1..MaxLen -> LoopWaypointSet]

LoopPoseSet == { Pose(0, 0, 0, 0), Pose(0, 3, 0, 0), Pose(10, 0, 0, 90) }

LoopInit ==
    /\ current_waypoints_ = << >>
    /\ current_pose_ = Pose(0, 0, 0, 0)
    /\ lookahead_distance_ = 5 * Scale
    /\ minimum_lookahead_distance_ = 1 * Scale
    /\ is_linear_interpolation_ = FALSE
    /\ Constructed

setCurrentWaypoints(wps) ==
    /\ current_waypoints_' = wps
    /\ last_call' = NoCall("set")
    /\ UNCHANGED << current_pose_, lookahead_distance_, minimum_lookahead_distance_,
                    is_linear_interpolation_, next_waypoint_number_,
                    next_target_position_, output_kappa >>

setCurrentPose(pose) ==
    /\ current_pose_' = pose
    /\ last_call' = NoCall("set")
    /\ UNCHANGED << current_waypoints_, lookahead_distance_, minimum_lookahead_distance_,
                    is_linear_interpolation_, next_waypoint_number_,
                    next_target_position_, output_kappa >>

setLookaheadDistance(ld) ==
    /\ minimum_lookahead_distance_ <= ld
    /\ lookahead_distance_' = ld
    /\ last_call' = NoCall("set")
    /\ UNCHANGED << current_waypoints_, current_pose_, minimum_lookahead_distance_,
                    is_linear_interpolation_, next_waypoint_number_,
                    next_target_position_, output_kappa >>

setMinimumLookaheadDistance(minld) ==
    /\ minld <= lookahead_distance_
    /\ minimum_lookahead_distance_' = minld
    /\ last_call' = NoCall("set")
    /\ UNCHANGED << current_waypoints_, current_pose_, lookahead_distance_,
                    is_linear_interpolation_, next_waypoint_number_,
                    next_target_position_, output_kappa >>

setLinearInterpolationParameter(param) ==
    /\ is_linear_interpolation_' = param
    /\ last_call' = NoCall("set")
    /\ UNCHANGED << current_waypoints_, current_pose_, lookahead_distance_,
                    minimum_lookahead_distance_, next_waypoint_number_,
                    next_target_position_, output_kappa >>

LoopNext ==
    \/ \E wps \in LoopPathSet : setCurrentWaypoints(wps)
    \/ \E pose \in LoopPoseSet : setCurrentPose(pose)
    \/ \E ld \in LookaheadSet : setLookaheadDistance(ld)
    \/ \E minld \in MinimumLookaheadSet : setMinimumLookaheadDistance(minld)
    \/ \E param \in BOOLEAN : setLinearInterpolationParameter(param)
    \/ Tick

SpecLoop == LoopInit /\ [][LoopNext]_vars

\* every input the loop's environment supplies is one the arithmetic is exact on
LoopRepresentable == Representable(current_waypoints_, current_pose_, lookahead_distance_)

---------------------------------------------------------------------------
(* Properties.  Distances are compared through their squares, in integer
   arithmetic that does not go through Mul, Div or Sqrt. *)

Dist2(p, q) == (p.x - q.x) * (p.x - q.x) + (p.y - q.y) * (p.y - q.y)

Position == current_pose_.position

N == Len(current_waypoints_)

Beyond(i, radius) == Dist2(at(current_waypoints_, i), Position) > radius * radius

Min(S) == CHOOSE m \in S : \A o \in S : m <= o

Ticked == last_call.op = "canGetCurvature"

Searched == last_call.op \in { "getNextWaypoint", "canGetCurvature" }

Interpolated == last_call.op = "interpolateNextTarget"

\* C1: after the waypoint search on a non-empty path, next_waypoint_number_ is
\* the smallest index below N-1 whose plane distance from the vehicle is
\* strictly greater than lookahead_distance_, and N-1 when there is none; it
\* is never -1.
C1_SearchSelectsFirstBeyondLookahead ==
    (Searched /\ N > 0) =>
        LET far == { i \in 0..(N - 2) : Beyond(i, lookahead_distance_) }
        IN  /\ next_waypoint_number_ # -1
            /\ next_waypoint_number_ = IF far = {} THEN N - 1 ELSE Min(far)

\* a search that skipped a waypoint lying exactly on the lookahead circle
C1_Witness ==
    /\ last_call.op = "getNextWaypoint"
    /\ N = 3
    /\ next_waypoint_number_ = 1
    /\ Dist2(at(current_waypoints_, 0), Position) = lookahead_distance_ * lookahead_distance_

\* a search that fell back to the last index with the whole path inside the radius
C1_WitnessFallback ==
    /\ Searched /\ N = 3 /\ next_waypoint_number_ = 2
    /\ \A i \in 0..2 : ~Beyond(i, lookahead_distance_)

ValidityPasses == \E i \in 0..(N - 1) : Beyond(i, minimum_lookahead_distance_)

RawCase ==
    \/ ~is_linear_interpolation_
    \/ next_waypoint_number_ = 0
    \/ next_waypoint_number_ = N - 1

\* C2: a tick whose search selected an index, whose validity check passed and
\* in which interpolation is disabled or the index is the first or the last
\* succeeds through the raw-waypoint return: next_target_position_ is the
\* selected waypoint's position and the kappa written is its curvature.
C2_RawWaypointTarget ==
    (Ticked /\ next_waypoint_number_ >= 0 /\ ValidityPasses /\ RawCase) =>
        /\ last_call.ret
        /\ last_call.exit = "raw"
        /\ next_target_position_ = at(current_waypoints_, next_waypoint_number_)
        /\ output_kappa = calcCurvature(Self, at(current_waypoints_, next_waypoint_number_))

\* interpolation enabled, a path of three waypoints, and the first one selected
C2_Witness ==
    /\ Ticked /\ is_linear_interpolation_ /\ N = 3 /\ next_waypoint_number_ = 0
    /\ ValidityPasses /\ last_call.ret
    /\ next_target_position_ = at(current_waypoints_, 0)
    /\ output_kappa.num # 0

\* C3: on a non-empty path with no waypoint strictly farther than
\* minimum_lookahead_distance_ from the vehicle the tick fails at the validity
\* check, whatever index was selected and whatever is_linear_interpolation_
\* is; a tick gets past that check only if some waypoint is strictly farther.
C3_MinimumLookaheadGate ==
    Ticked =>
        /\ (N > 0 /\ ~ValidityPasses) =>
               (~last_call.ret /\ last_call.exit = "invalid_curve")
        /\ last_call.exit \in { "raw", "interpolated", "lost_target" } => ValidityPasses

\* a path of three waypoints, all within the minimum lookahead distance, one of
\* them exactly on it, with the last index selected and interpolation enabled
C3_Witness ==
    /\ Ticked /\ N = 3 /\ ~ValidityPasses /\ ~last_call.ret
    /\ next_waypoint_number_ = 2 /\ is_linear_interpolation_
    /\ \E i \in 0..2 : Dist2(at(current_waypoints_, i), Position)
                          = minimum_lookahead_distance_ * minimum_lookahead_distance_

OnCircle(t) == Dist2(t, Position) = lookahead_distance_ * lookahead_distance_

\* t is on the line through waypoints k-1 and k
OnLine(t, k) ==
    LET start == at(current_waypoints_, k - 1)
        end   == at(current_waypoints_, k)
    IN  (end.y - start.y) * (t.x - start.x) - (end.x - start.x) * (t.y - start.y) = 0

\* C4 as stated: every successful result of the interpolator, for every valid
\* waypoint index, is at plane distance lookahead_distance_ from the vehicle
\* and on the line through waypoints index-1 and index.
C4_Original_EveryResultOnCircle ==
    (Interpolated /\ last_call.ret) =>
        /\ OnCircle(last_call.target)
        /\ last_call.idx > 0 => OnLine(last_call.target, last_call.idx)

\* C4 amended: every successful result of the interpolator for an index below
\* the last one is at plane distance lookahead_distance_ from the vehicle and
\* on the line through waypoints index-1 and index (exactly so on the inputs
\* of the model, hence within 1e-5); for the last index the result is that
\* waypoint itself.
C4_ResultOnCircleBelowLast ==
    (Interpolated /\ last_call.ret) =>
        IF last_call.idx = N - 1
        THEN last_call.target = at(current_waypoints_, N - 1)
        ELSE /\ OnCircle(last_call.target)
             /\ OnLine(last_call.target, last_call.idx)

\* an intersection on a slanted segment, off the grid of the waypoints, with the
\* vehicle off the line
C4_Witness ==
    /\ Interpolated /\ last_call.ret /\ last_call.idx = 1 /\ N = 3
    /\ last_call.exit = "target1"
    /\ at(current_waypoints_, 1).y # at(current_waypoints_, 0).y
    /\ at(current_waypoints_, 1).x # at(current_waypoints_, 0).x
    /\ ~OnLine(Position, 1)
    /\ last_call.target.x % Scale # 0

\* t is on the closed segment between waypoints k-1 and k
WithinSegment(t, k) ==
    LET start == at(current_waypoints_, k - 1)
        end   == at(current_waypoints_, k)
        dot   == (t.x - start.x) * (end.x - start.x) + (t.y - start.y) * (end.y - start.y)
    IN  OnLine(t, k) /\ 0 <= dot /\ dot <= Dist2(start, end)

\* C5: a point the interpolator returns from its two-intersection branch, for
\* 0 < index < N-1, lies within the segment from waypoint index-1 to waypoint
\* index, at plane distance from the end strictly less than the segment length.
C5_ReturnedPointWithinSegment ==
    (Interpolated /\ last_call.idx > 0 /\ last_call.idx < N - 1
        /\ last_call.exit \in { "target1", "target2" }) =>
        /\ Dist2(last_call.target, at(current_waypoints_, last_call.idx))
              < Dist2(at(current_waypoints_, last_call.idx - 1),
                      at(current_waypoints_, last_call.idx))
        /\ WithinSegment(last_call.target, last_call.idx)

\* C5 in a tick: the search puts the start inside the circle and the end
\* outside it, and the interpolated target is then within the segment.
C5_InTickWithinSegment ==
    (Ticked /\ last_call.exit = "interpolated") =>
        WithinSegment(next_target_position_, next_waypoint_number_)

Local == calcRelativeCoordinate(next_target_position_, current_pose_)

\* C6: with (x, y) the target in the vehicle frame, the kappa of a successful
\* tick satisfies kappa * x^2 = 2*y when x^2 # 0 (kappa has the sign of y and
\* is 0 for y = 0); when x = 0 it is +KAPPA_MIN_ for y > 0 and -KAPPA_MIN_
\* otherwise, y = 0 included.
C6_CurvatureOfLocalTarget ==
    (Ticked /\ last_call.ret) =>
        IF Local.x * Local.x # 0
        THEN /\ output_kappa.kmin = 0
             /\ output_kappa.den > 0
             /\ (Local.x * Local.x) % output_kappa.den = 0
             /\ output_kappa.num * ((Local.x * Local.x) \div output_kappa.den)
                   = 2 * Local.y * Scale
        ELSE /\ output_kappa.num = 0
             /\ output_kappa.kmin = IF Local.y > 0 THEN 1 ELSE -1

\* the target is the vehicle's own position: x = 0 and y = 0
C6_Witness ==
    /\ Ticked /\ last_call.ret /\ Local.x = 0 /\ Local.y = 0
    /\ output_kappa = Neg(KAPPA_MIN_)

C6_WitnessAbeamLeft ==
    /\ Ticked /\ last_call.ret /\ Local.x = 0 /\ Local.y > 0
    /\ output_kappa = KAPPA_MIN_

C6_WitnessOffGrid ==
    /\ Ticked /\ last_call.exit = "interpolated"
    /\ Local.x % Scale # 0 /\ Local.y < 0 /\ output_kappa.num < 0

\* C9: when a tick reaches the interpolator, waypoint idx-1 is within
\* lookahead_distance_ of the vehicle and waypoint idx is strictly beyond it,
\* so the two differ, the vehicle is no farther than lookahead_distance_ from
\* their line, and the interpolator leaves through neither the coincident-
\* points return nor the line-out-of-reach return.
C9_TickNeverDegenerateNorOutOfReach ==
    (Ticked /\ last_call.exit \in { "interpolated", "lost_target" }) =>
        LET idx   == next_waypoint_number_
            start == at(current_waypoints_, idx - 1)
            end   == at(current_waypoints_, idx)
            cross == (end.y - start.y) * ((Position.x - start.x) \div Scale)
                     - (end.x - start.x) * ((Position.y - start.y) \div Scale)
        IN  /\ 0 < idx /\ idx < N - 1
            /\ ~Beyond(idx - 1, lookahead_distance_)
            /\ Beyond(idx, lookahead_distance_)
            /\ start.x # end.x \/ start.y # end.y
            /\ (cross \div Scale) * (cross \div Scale)
                  <= (lookahead_distance_ \div Scale) * (lookahead_distance_ \div Scale)
                       * (Dist2(start, end) \div (Scale * Scale))
            /\ interpolateNextTarget(Self, idx, next_target_position_).exit
                  \notin { "degenerate", "out_of_reach", "out_of_range" }

\* a tick whose interpolation failed although neither of those exits was taken
C9_Witness ==
    /\ Ticked /\ last_call.exit = "lost_target"
    /\ interpolateNextTarget(Self, next_waypoint_number_, next_target_position_).exit
          = "no_intersection"

\* both exits are reached by calling the interpolator on its own
C9_WitnessDirectDegenerate == Interpolated /\ last_call.exit = "degenerate"

C9_WitnessDirectOutOfReach == Interpolated /\ last_call.exit = "out_of_reach"

\* C7: a tick on an empty path fails at the lost-waypoint return, before the
\* validity check, with next_waypoint_number_ set to -1, whatever the pose and
\* the configuration are and whatever earlier ticks left.
C7_EmptyPathIsLost ==
    (Ticked /\ N = 0) =>
        /\ ~last_call.ret
        /\ last_call.exit = "lost_waypoint"
        /\ next_waypoint_number_ = -1

\* an empty path arriving after a tick that succeeded, interpolation enabled
C7_Witness ==
    /\ Ticked /\ N = 0 /\ ~last_call.ret
    /\ output_kappa # Zero /\ next_target_position_ # Origin
    /\ is_linear_interpolation_

\* the tick on an object just constructed, given this state's path, pose and
\* configuration
FreshTick ==
    canGetCurvature([Self EXCEPT !.next_waypoint_number_ = -1,
                                 !.next_target_position_ = Origin], Zero)

\* C8: whatever ticks came before, a tick's return value and
\* next_waypoint_number_ and, when it succeeds, next_target_position_ and kappa
\* are those of the same tick on a newly constructed object with the same
\* path, pose and configuration.
C8_TickIndependentOfHistory ==
    Ticked =>
        /\ last_call.ret = FreshTick.ret
        /\ last_call.exit = FreshTick.exit
        /\ next_waypoint_number_ = FreshTick.self.next_waypoint_number_
        /\ last_call.ret =>
               /\ next_target_position_ = FreshTick.self.next_target_position_
               /\ output_kappa = FreshTick.output_kappa

\* a tick on a history that left other values behind: it failed, and the
\* target and kappa it did not write are not those of a new object
C8_Witness ==
    /\ Ticked /\ ~last_call.ret /\ N = MaxLen
    /\ next_waypoint_number_ > 0
    /\ output_kappa # Zero /\ next_target_position_ # Origin

C8_WitnessSuccess ==
    /\ Ticked /\ last_call.exit = "interpolated" /\ output_kappa.num # 0

TickSucceeds == last_call.op = "canGetCurvature" /\ last_call.ret

\* C10: a step other than a successful tick leaves the caller's kappa and
\* next_target_position_ as they were (a failing tick rewrites only
\* next_waypoint_number_), and a successful tick writes both: the kappa it
\* leaves is the curvature towards the target it leaves.
C10_FailedTickKeepsOutputs ==
    [][ /\ ~TickSucceeds' => UNCHANGED << output_kappa, next_target_position_ >>
        /\ TickSucceeds' => output_kappa' = calcCurvature(Self', next_target_position_') ]_vars

\* a tick that failed inside the interpolator after an earlier tick succeeded
C10_Witness ==
    /\ Ticked /\ last_call.exit = "lost_target"
    /\ output_kappa # Zero /\ next_target_position_ # Origin

====
